---------------------------- MODULE Spec2Model ----------------------------
(***************************************************************************)
(* Model of the "what to do" recommendation service (backend/app):         *)
(*   services/recommendation_engine.py  scorer, generators, selector,      *)
(*                                      generate_recommendations           *)
(*   services/cache_service.py          CacheService, InMemoryCache        *)
(*   api/recommendations.py             request path and feedback          *)
(*   services/performance.py            PrecomputeService (scheduler)      *)
(*                                                                         *)
(* Scores: sub-scores are whole points 0..100; the four weights are kept   *)
(* in hundredths (0.35 is 35), so a total score is in hundredths of a      *)
(* point (84.25 is 8425).                                                  *)
(* Time: `now` is the wall clock in seconds; TTLs are in seconds.          *)
(***************************************************************************)
EXTENDS Integers, Sequences, FiniteSets, TLC

VARIABLES
    \* --- selector (RecommendationEngine._select_top3_with_diversity)
    recommendations,    \* the candidate pool handed to the selector
    top3,               \* its result, or NotRun
    \* --- scorer (RecommendationEngine._calculate_total_score)
    algorithm_weights,  \* self.algorithm_weights, in hundredths
    score_args,         \* <<urgency, importance, fit, growth>> of the last call
    total_score,        \* its result in hundredths of a point, or NotRun
    urgency_call,       \* <<days_left, task_type, result>> of the last call of
                        \* _calculate_urgency_score, or NotRun
    cache_ttl,          \* settings.cache_ttl, read from the environment or .env
    \* --- engine (RecommendationEngine.generate_recommendations)
    use_mock_data,      \* settings.use_mock_data
    upstream,           \* what each of the five upstream reads would return
    failed,             \* the upstream reads that fail (raise) in this call
    gpc,                \* "start", "fetched" (user_data assembled), "done"
    user_data,          \* the dict _fetch_user_data returns
    gen_result,         \* what generate_recommendations gives its caller
    \* --- cache (CacheService, InMemoryCache, the Redis server)
    now,                \* wall clock, seconds
    redis_up,           \* the Redis server answers
    redis_db,           \* the Redis database: key -> slot (data, expire_at)
    redis,              \* self.redis of each CacheService instance
    cache,              \* InMemoryCache.cache of each CacheService instance
    warnings,           \* "degraded" warnings logged by each instance
    cache_call,         \* the last CacheService call and what it returned
    \* --- request path (api/recommendations.py) and scheduler cycles
    tasks_done,         \* upstream: how many pending tasks each user completed
    feedback_log,       \* how many feedbacks submit_feedback has logged
    req,                \* the top-3 requests in flight or answered
    precompute,         \* PrecomputeService._precompute_all_users in progress
    refreshing,         \* PrecomputeService._refresh_active_users in progress
    \* --- scheduler loops (PrecomputeService background tasks)
    running,            \* self.running
    starts,             \* how many times start_background_tasks made tasks
    tasks,              \* the asyncio tasks made: where each loop stands
    raised,             \* how many exceptions the loop bodies have raised
    last_raised         \* the task whose body raised last, or NoTaskId

selVars   == <<recommendations, top3>>
scoreVars == <<algorithm_weights, score_args, total_score>>
genVars   == <<use_mock_data, upstream, failed, gpc, user_data, gen_result>>
cacheVars == <<now, redis_up, redis_db, redis, cache, warnings, cache_call>>
appVars   == <<tasks_done, feedback_log, req, precompute, refreshing>>
loopVars  == <<running, starts, tasks, raised, last_raised>>
urgVars   == <<urgency_call>>
cfgVars   == <<cache_ttl>>
vars      == <<selVars, scoreVars, genVars, cacheVars, appVars, loopVars, urgVars, cfgVars>>
notSel    == <<scoreVars, genVars, cacheVars, appVars, loopVars, urgVars, cfgVars>>
notScore  == <<selVars, genVars, cacheVars, appVars, loopVars, urgVars, cfgVars>>
notGen    == <<selVars, scoreVars, cacheVars, appVars, loopVars, urgVars, cfgVars>>
notCache  == <<selVars, scoreVars, genVars, appVars, loopVars, urgVars, cfgVars>>
notApp    == <<selVars, scoreVars, genVars, loopVars, urgVars, cfgVars>>
notLoops  == <<selVars, scoreVars, genVars, cacheVars, appVars, urgVars, cfgVars>>

\* a result slot: empty until the operation has run
NotRun == [done |-> FALSE, val |-> <<>>]
Ran(v) == [done |-> TRUE, val |-> v]

Min(a, b) == IF a <= b THEN a ELSE b
Max(a, b) == IF a >= b THEN a ELSE b

RECURSIVE SeqSum(_)
SeqSum(s) == IF s = <<>> THEN 0 ELSE Head(s) + SeqSum(Tail(s))

Range(s) == {s[i] : i \in 1..Len(s)}

(***************************************************************************)
(* Bounds of the model.                                                    *)
(***************************************************************************)
MaxPool    == 4     \* longest candidate pool handed to the selector
MaxWeightK == 3     \* weights range over -50, 0, 50, .. 50*MaxWeightK hundredths

(***************************************************************************)
(* models/schemas.py: RecommendationType.  A type value is kept as the     *)
(* list of its '_'-separated words, so that value.split('_')[0] is Head.   *)
(***************************************************************************)
COURSE_URGENT  == <<"COURSE", "URGENT">>
COURSE_POPULAR == <<"COURSE", "POPULAR">>
TASK_CLAIM     == <<"TASK", "CLAIM">>
GOAL_TALK      == <<"GOAL", "TALK">>
REPORT_TIME    == <<"REPORT", "TIME">>

RecommendationType ==
    {COURSE_URGENT, COURSE_POPULAR, TASK_CLAIM, GOAL_TALK, REPORT_TIME}

\* rec.type.value.split('_')[0]
TypeCategory(type) == Head(type)

(***************************************************************************)
(* config.py: Settings (defaults).                                         *)
(***************************************************************************)
WeightUrgency     == 35
WeightImportance  == 30
WeightPersonalFit == 25
WeightGrowthValue == 10
DefaultWeights ==
    [urgency |-> WeightUrgency, importance |-> WeightImportance,
     personal_fit |-> WeightPersonalFit, growth_value |-> WeightGrowthValue]

ScoreCap == 100     \* min(total, 100)

(***************************************************************************)
(* _calculate_total_score: the weighted sum, clamped above only.  The      *)
(* result is in hundredths of a point (weights are in hundredths).         *)
(***************************************************************************)
\* slip: the growth term takes the urgency weight, and the sum is not clamped
TotalWrongWeight(w, urgency, importance, fit, growth) ==
    urgency * w.urgency + importance * w.importance
        + fit * w.personal_fit + growth * w.urgency

\* slip: the sum is returned without min(total, 100)
TotalNotClamped(w, urgency, importance, fit, growth) ==
    urgency * w.urgency + importance * w.importance
        + fit * w.personal_fit + growth * w.growth_value

CalculateTotalScore(w, urgency, importance, fit, growth) ==
    Min(urgency * w.urgency + importance * w.importance
            + fit * w.personal_fit + growth * w.growth_value,
        ScoreCap * 100)

(***************************************************************************)
(* _select_top3_with_diversity.                                            *)
(* sorted(recommendations, key=score, reverse=True) is stable: equal       *)
(* scores keep their pool order.                                           *)
(***************************************************************************)
RECURSIVE InsertByScore(_, _)
InsertByScore(sorted, rec) ==
    IF sorted = <<>> THEN <<rec>>
    ELSE IF Head(sorted).score >= rec.score
         THEN <<Head(sorted)>> \o InsertByScore(Tail(sorted), rec)
         ELSE <<rec>> \o sorted

RECURSIVE SortedByScore(_)
SortedByScore(recs) ==
    IF recs = <<>> THEN <<>>
    ELSE InsertByScore(SortedByScore(SubSeq(recs, 1, Len(recs) - 1)),
                       recs[Len(recs)])

\* first loop: the first candidate of each category not used yet
RECURSIVE DiversityPass(_, _, _)
DiversityPass(recs, selected, used_types) ==
    IF recs = <<>> \/ Len(selected) >= 3 THEN selected
    ELSE LET rec == Head(recs)
             rec_category == TypeCategory(rec.type)
         IN  IF rec_category \notin used_types
             THEN DiversityPass(Tail(recs), Append(selected, rec),
                                used_types \cup {rec_category})
             ELSE DiversityPass(Tail(recs), selected, used_types)

\* second loop: `rec not in selected` compares items by value
RECURSIVE FillPass(_, _)
FillPass(recs, selected) ==
    IF recs = <<>> \/ Len(selected) >= 3 THEN selected
    ELSE IF Head(recs) \notin Range(selected)
         THEN FillPass(Tail(recs), Append(selected, Head(recs)))
         ELSE FillPass(Tail(recs), selected)

\* slip: the three best scores, whatever their categories
NoDiversitySelect(recs) ==
    IF recs = <<>> THEN <<>>
    ELSE LET sorted_recs == SortedByScore(recs)
         IN  SubSeq(sorted_recs, 1, Min(3, Len(sorted_recs)))

\* slip: the pool is walked in its own order, not by score
UnsortedSelect(recs) ==
    IF recs = <<>> THEN <<>>
    ELSE LET selected == FillPass(recs, DiversityPass(recs, <<>>, {}))
         IN  SubSeq(selected, 1, Min(3, Len(selected)))

SelectTop3WithDiversity(recs) ==
    IF recs = <<>> THEN <<>>
    ELSE LET sorted_recs == SortedByScore(recs)
             selected == FillPass(sorted_recs,
                                  DiversityPass(sorted_recs, <<>>, {}))
         IN  SubSeq(selected, 1, Min(3, Len(selected)))

(***************************************************************************)
(* config.py: urgency thresholds, in hours.                                *)
(***************************************************************************)
UrgencyCritical == 24
UrgencyHigh     == 72
UrgencyMedium   == 168

\* _get_urgency_level
GetUrgencyLevel(hours_left) ==
    IF hours_left <= UrgencyCritical THEN "critical"
    ELSE IF hours_left <= UrgencyHigh THEN "high"
    ELSE IF hours_left <= UrgencyMedium THEN "medium"
    ELSE "low"

\* slip: the first course threshold is tested with < instead of <=
UrgencyOffByOne(days_left, task_type) ==
    IF task_type = "COURSE" THEN
        IF days_left < 1 THEN 95
        ELSE IF days_left <= 3 THEN 85
        ELSE IF days_left <= 7 THEN 70
        ELSE IF days_left <= 14 THEN 50
        ELSE 30
    ELSE IF task_type = "PROJECT" THEN
        IF days_left <= 3 THEN 90
        ELSE IF days_left <= 7 THEN 75
        ELSE IF days_left <= 14 THEN 60
        ELSE 40
    ELSE 25

\* _calculate_urgency_score
CalculateUrgencyScore(days_left, task_type) ==
    IF task_type = "COURSE" THEN
        IF days_left <= 1 THEN 95
        ELSE IF days_left <= 3 THEN 85
        ELSE IF days_left <= 7 THEN 70
        ELSE IF days_left <= 14 THEN 50
        ELSE 30
    ELSE IF task_type = "PROJECT" THEN
        IF days_left <= 3 THEN 90
        ELSE IF days_left <= 7 THEN 75
        ELSE IF days_left <= 14 THEN 60
        ELSE 40
    ELSE 25

\* _calculate_project_fit_score
CalculateProjectFitScore(project) ==
    LET bonus == project.bonus
        base1 == IF bonus > 200 THEN 50 + 20
                 ELSE IF bonus > 100 THEN 50 + 10 ELSE 50
        base2 == IF project.planed_hour <= 10 THEN base1 + 15 ELSE base1
    IN  Min(base2, 95)

(***************************************************************************)
(* Upstream records.  A datetime is kept as its distance from the time of  *)
(* the call: hours_left = deadline - now in whole hours, so that           *)
(* (deadline - now).days is hours_left \div 24 (floor).  ok = FALSE is a   *)
(* record with a missing or badly shaped field.                            *)
(***************************************************************************)
Sources == {"selections", "all_courses", "projects", "goal", "reports"}

Sel(sele_id, course_id, hours_left) ==
    [sele_id |-> sele_id, course_id |-> course_id, hours_left |-> hours_left,
     ok |-> TRUE]
BadSel == [sele_id |-> 9, course_id |-> 109, hours_left |-> 0, ok |-> FALSE]

Course(id, finish_selections_num) ==
    [id |-> id, finish_selections_num |-> finish_selections_num, ok |-> TRUE]
BadCourse == [id |-> 0, finish_selections_num |-> 12, ok |-> FALSE]

Proj(id, unclaimed, hours_left, planed_hour, bonus) ==
    [id |-> id, taker_id_none |-> unclaimed, hours_left |-> hours_left,
     planed_hour |-> planed_hour, bonus |-> bonus, ok |-> TRUE]
BadProj ==
    [id |-> 0, taker_id_none |-> TRUE, hours_left |-> 0, planed_hour |-> 0,
     bonus |-> 0, ok |-> FALSE]

\* the goal dict, or None (present = FALSE)
Goal(id, days_since_start) ==
    [present |-> TRUE, id |-> id, days_since_start |-> days_since_start,
     ok |-> TRUE]
NoGoal  == [present |-> FALSE, id |-> 0, days_since_start |-> 0, ok |-> TRUE]
BadGoal == [present |-> TRUE, id |-> 1, days_since_start |-> 0, ok |-> FALSE]

\* a report dict; time_reported in tenths of an hour
Rep(days_ago, time_reported) ==
    [days_ago |-> days_ago, time_reported |-> time_reported, ok |-> TRUE]
BadRep == [days_ago |-> 0, time_reported |-> 0, ok |-> FALSE]

RECURSIVE SelectOk(_)
SelectOk(items) ==
    IF items = <<>> THEN <<>>
    ELSE IF Head(items).ok THEN <<Head(items)>> \o SelectOk(Tail(items))
         ELSE SelectOk(Tail(items))

\* ZishuAPIClient.get_user_selections / get_current_projects: a record that
\* does not parse is skipped (try/except ... continue)
ParseRecords(items) == SelectOk(items)

\* _get_mock_user_data, on a host whose local time is UTC: "2 days" is just
\* under 48 hours by the time the generators read the clock
MockUserData ==
    [selections  |-> <<Sel(1, 101, 47), Sel(2, 102, 167)>>,
     all_courses |-> <<Course(103, 12), Course(104, 8)>>,
     projects    |-> <<Proj(201, TRUE, 239, 15, 300),
                       Proj(202, TRUE, 119, 25, 500)>>,
     goal        |-> Goal(1, 25),
     reports     |-> <<Rep(5, 25), Rep(15, 30)>>]

\* a slip: a failed read leaves the whole context empty
FetchAllOrNothing(mock, up, fail) ==
    IF mock THEN MockUserData
    ELSE IF fail # {}
         THEN [selections |-> <<>>, all_courses |-> <<>>, projects |-> <<>>,
               goal |-> NoGoal, reports |-> <<>>]
         ELSE [selections |-> ParseRecords(up.selections),
               all_courses |-> up.all_courses,
               projects |-> ParseRecords(up.projects),
               goal |-> up.goal, reports |-> up.reports]

\* _fetch_user_data: gather(..., return_exceptions=True), each failed read
\* replaced by its default
FetchUserData(mock, up, fail) ==
    IF mock THEN MockUserData
    ELSE [selections  |-> IF "selections" \in fail THEN <<>>
                          ELSE ParseRecords(up.selections),
          all_courses |-> IF "all_courses" \in fail THEN <<>>
                          ELSE up.all_courses,
          projects    |-> IF "projects" \in fail THEN <<>>
                          ELSE ParseRecords(up.projects),
          goal        |-> IF "goal" \in fail THEN NoGoal ELSE up.goal,
          reports     |-> IF "reports" \in fail THEN <<>> ELSE up.reports]

(***************************************************************************)
(* Generators.  Each gives [raised, recs]: raised is an exception leaving  *)
(* the generator.                                                          *)
(***************************************************************************)
NoRecs == [raised |-> FALSE, recs |-> <<>>]
Raise  == [raised |-> TRUE, recs |-> <<>>]

RECURSIVE Gather(_)
Gather(parts) ==
    IF parts = <<>> THEN NoRecs
    ELSE LET rest == Gather(Tail(parts))
         IN  [raised |-> Head(parts).raised \/ rest.raised,
              recs   |-> Head(parts).recs \o rest.recs]

\* RecommendationItem(...): the score fields are validated (ge=0, le=100)
NewItem(w, type, id, urgency, importance, fit, growth, level) ==
    LET total == CalculateTotalScore(w, urgency, importance, fit, growth)
        valid == /\ total >= 0 /\ total <= 100 * 100
                 /\ \A x \in {urgency, importance, fit, growth} :
                        x >= 0 /\ x <= 100
    IN  IF valid
        THEN [raised |-> FALSE,
              recs |-> <<[id |-> id, type |-> type, score |-> total,
                          urgency |-> urgency, importance |-> importance,
                          personal_fit |-> fit, growth_value |-> growth,
                          urgency_level |-> level]>>]
        ELSE Raise

\* _recommend_courses, first loop
UrgentCourse(w, selection) ==
    LET days_to_deadline == selection.hours_left \div 24
    IN  IF days_to_deadline <= 3
        THEN NewItem(w, COURSE_URGENT, selection.sele_id,
                     CalculateUrgencyScore(days_to_deadline, "COURSE"),
                     85, 90, 70, GetUrgencyLevel(days_to_deadline * 24))
        ELSE NoRecs

\* _recommend_courses, second loop
PopularCourse(w, course, selected_course_ids) ==
    IF ~course.ok THEN Raise        \* course["id"]: KeyError
    ELSE IF course.id \notin selected_course_ids
            /\ course.finish_selections_num >= 5
    THEN LET urgency == 30
             importance == 60 + Min(course.finish_selections_num * 2, 30)
             total == CalculateTotalScore(w, urgency, importance, 50, 80)
         IN  IF total >= 60 * 100
             THEN NewItem(w, COURSE_POPULAR, course.id, urgency, importance,
                          50, 80, "low")
             ELSE NoRecs
    ELSE NoRecs

RecommendCourses(w, data) ==
    LET selections == data.selections
        all_courses == data.all_courses
        selected_course_ids ==
            {selections[i].course_id : i \in 1..Len(selections)}
    IN  Gather([i \in 1..Len(selections) |-> UrgentCourse(w, selections[i])]
               \o [i \in 1..Len(all_courses) |->
                      PopularCourse(w, all_courses[i], selected_course_ids)])

\* _recommend_projects
ClaimProject(w, project) ==
    IF project.taker_id_none
    THEN LET days_to_deadline == project.hours_left \div 24
             urgency == CalculateUrgencyScore(days_to_deadline, "PROJECT")
             importance == Min(60 + project.bonus \div 10, 90)
             fit == CalculateProjectFitScore(project)
             growth == Min(60 + project.planed_hour * 2, 90)
             total == CalculateTotalScore(w, urgency, importance, fit, growth)
         IN  IF total >= 50 * 100
             THEN NewItem(w, TASK_CLAIM, project.id, urgency, importance,
                          fit, growth, GetUrgencyLevel(days_to_deadline * 24))
             ELSE NoRecs
    ELSE NoRecs

RecommendProjects(w, data) ==
    Gather([i \in 1..Len(data.projects) |-> ClaimProject(w, data.projects[i])])

\* _recommend_system_actions, goal part
GoalTalk(w, goal) ==
    IF ~goal.present THEN NoRecs
    ELSE IF ~goal.ok THEN Raise     \* goal["start_time"] missing or unparsable
    ELSE IF goal.days_since_start > 21
    THEN NewItem(w, GOAL_TALK, goal.id, Min(50 + goal.days_since_start, 90),
                 75, 100, 85, "medium")
    ELSE NoRecs

\* _recommend_system_actions, report part
ReportReminder(w, reports) ==
    IF reports = <<>> THEN NoRecs
    ELSE IF \E i \in 1..Len(reports) : ~reports[i].ok
    THEN Raise                      \* r["report_time"] missing or unparsable
    ELSE LET recent_hours ==
                 SeqSum([i \in 1..Len(reports) |->
                            IF reports[i].days_ago < 30
                            THEN reports[i].time_reported ELSE 0])
         IN  IF recent_hours < 10 * 10
             THEN NewItem(w, REPORT_TIME, 0, 60, 70, 90, 50, "medium")
             ELSE NoRecs

RecommendSystemActions(w, data) ==
    Gather(<<GoalTalk(w, data.goal), ReportReminder(w, data.reports)>>)

\* generate_recommendations, lines 36-47: what the try block computes
RunGenerators(w, data) ==
    LET all_recommendations ==
            Gather(<<RecommendCourses(w, data), RecommendProjects(w, data),
                     RecommendSystemActions(w, data)>>)
    IN  IF all_recommendations.raised THEN Raise
        ELSE [raised |-> FALSE,
              recs |-> SelectTop3WithDiversity(all_recommendations.recs)]

\* a slip: no try/except around the generators
GeneratePropagates(w, data) == RunGenerators(w, data)

\* a slip: what the generators produced before the failure is returned
GeneratePartial(w, data) ==
    LET all_recommendations ==
            Gather(<<RecommendCourses(w, data), RecommendProjects(w, data),
                     RecommendSystemActions(w, data)>>)
    IN  [raised |-> FALSE,
         recs |-> SelectTop3WithDiversity(all_recommendations.recs)]

\* generate_recommendations: `except Exception: return []`
GenerateRecommendations(w, data) ==
    LET out == RunGenerators(w, data)
    IN  IF out.raised THEN NoRecs ELSE out

(***************************************************************************)
(* Engine specification: one call of generate_recommendations, for any     *)
(* replies of the five upstream reads and any subset of them failing.      *)
(***************************************************************************)
SelectionReplies ==
    {<<>>, <<Sel(1, 101, 47)>>, <<Sel(1, 101, 30), Sel(2, 102, 167)>>,
     <<BadSel, Sel(2, 102, 60)>>}
CourseReplies ==
    {<<>>, <<Course(103, 12)>>, <<Course(101, 8), Course(104, 3)>>,
     <<BadCourse, Course(103, 12)>>}
ProjectReplies ==
    {<<>>, <<Proj(201, TRUE, 239, 15, 300)>>,
     <<Proj(202, FALSE, 119, 25, 500), Proj(203, TRUE, 50, 5, 0)>>,
     <<BadProj, Proj(201, TRUE, 239, 15, 300)>>}
GoalReplies == {NoGoal, Goal(1, 25), Goal(1, 10), BadGoal}
ReportReplies ==
    {<<>>, <<Rep(5, 25), Rep(15, 30)>>, <<Rep(5, 120)>>,
     <<BadRep, Rep(5, 25)>>}

EmptyUpstream ==
    [selections |-> <<>>, all_courses |-> <<>>, projects |-> <<>>,
     goal |-> NoGoal, reports |-> <<>>]

InitGen ==
    /\ use_mock_data \in BOOLEAN
    /\ IF use_mock_data
       THEN upstream = EmptyUpstream /\ failed = {}
       ELSE /\ upstream \in [selections : SelectionReplies,
                             all_courses : CourseReplies,
                             projects : ProjectReplies,
                             goal : GoalReplies, reports : ReportReplies]
            /\ failed \in SUBSET Sources
    /\ gpc = "start"
    /\ user_data = EmptyUpstream
    /\ gen_result = NotRun

IdleGen ==
    /\ use_mock_data = FALSE /\ upstream = EmptyUpstream /\ failed = {}
    /\ gpc = "start" /\ user_data = EmptyUpstream /\ gen_result = NotRun

\* generate_recommendations, line 33
FetchData ==
    /\ gpc = "start"
    /\ user_data' = FetchUserData(use_mock_data, upstream, failed)
    /\ gpc' = "fetched"
    /\ UNCHANGED <<use_mock_data, upstream, failed, gen_result, notGen>>

\* generate_recommendations, lines 36-51
Recommend ==
    /\ gpc = "fetched"
    /\ gen_result' = Ran(GenerateRecommendations(algorithm_weights, user_data))
    /\ gpc' = "done"
    /\ UNCHANGED <<use_mock_data, upstream, failed, user_data, notGen>>

(***************************************************************************)
(* Selector specification: any pool of at most MaxPool candidates.  A      *)
(* candidate carries the fields the selector reads (type, score) and an    *)
(* id; two items with the same id, type and score are equal items (the     *)
(* same upstream record met twice).                                        *)
(***************************************************************************)
PoolTypes  == {COURSE_URGENT, COURSE_POPULAR, TASK_CLAIM, GOAL_TALK}
PoolScores == {6000, 8500, 9500}
\* several course selections may be due; the other generators are given one
\* source record each here
PoolIds(type) == IF type = COURSE_URGENT THEN {1, 2} ELSE {1}
Candidates ==
    {c \in [id : {1, 2}, type : PoolTypes, score : PoolScores] :
        c.id \in PoolIds(c.type)}

InitSel == recommendations = <<>> /\ top3 = NotRun

\* a generator appends one more candidate to the pool
AddCandidate ==
    /\ top3 = NotRun
    /\ Len(recommendations) < MaxPool
    /\ \E c \in Candidates : recommendations' = Append(recommendations, c)
    /\ UNCHANGED <<top3, notSel>>

Select ==
    /\ top3 = NotRun
    /\ top3' = Ran(SelectTop3WithDiversity(recommendations))
    /\ UNCHANGED <<recommendations, notSel>>

(***************************************************************************)
(* Scorer specification: any weight configuration summing to 1.0 (and the  *)
(* defaults), any sub-scores of the grid.                                  *)
(***************************************************************************)
WeightVals == {50 * k : k \in -1..MaxWeightK}
WeightConfigs ==
    {DefaultWeights} \cup
    {w \in [urgency : WeightVals, importance : WeightVals,
            personal_fit : WeightVals, growth_value : WeightVals] :
        w.urgency + w.importance + w.personal_fit + w.growth_value = 100}

SubScoreVals == {0, 50, 100}
ScoreArgs ==
    (SubScoreVals \X SubScoreVals \X SubScoreVals \X SubScoreVals)
        \cup {<<85, 85, 90, 70>>, <<90, 80, 85, 70>>}

InitScore ==
    /\ algorithm_weights \in WeightConfigs
    /\ score_args = <<>>
    /\ total_score = NotRun

CalcTotal ==
    \E a \in ScoreArgs :
        /\ score_args' = a
        /\ total_score' =
               Ran(CalculateTotalScore(algorithm_weights, a[1], a[2], a[3], a[4]))
        /\ UNCHANGED <<algorithm_weights, notScore>>

\* one call of _calculate_urgency_score, for any days_left in the range and
\* any task type
MaxDaysLeft  == 20
DaysLeftVals == -MaxDaysLeft..MaxDaysLeft
TaskTypes    == {"COURSE", "PROJECT", "SYSTEM"}
InitUrgency  == urgency_call = NotRun
IdleUrgency  == urgency_call = NotRun
CalcUrgency ==
    \E days_left \in DaysLeftVals, task_type \in TaskTypes :
        /\ urgency_call' =
               Ran(<<days_left, task_type,
                     CalculateUrgencyScore(days_left, task_type)>>)
        /\ UNCHANGED <<selVars, scoreVars, genVars, cacheVars, appVars,
                       loopVars, cfgVars>>

IdleSel   == recommendations = <<>> /\ top3 = NotRun
IdleScore ==
    algorithm_weights = DefaultWeights /\ score_args = <<>> /\ total_score = NotRun

(***************************************************************************)
(* Python values, and the JSON text json.dumps(value, ensure_ascii=False,  *)
(* default=str) writes and json.loads reads back.  A value is [py, v]:     *)
(* its Python type and its content; the content of a str says how the     *)
(* text was made, so that "2026-01-01 08:00:00", "2026-01-01T08:00:00"     *)
(* and a datetime object are three different values.                       *)
(***************************************************************************)
Literal(s)       == [lit |-> s]
StrOfDatetime(t) == [date |-> t, sep |-> " "]    \* str(datetime)
IsoFormat(t)     == [date |-> t, sep |-> "T"]    \* datetime.isoformat()
StrOfInt(n)      == [digits |-> n]               \* str(int)

PyNone        == [py |-> "NoneType"]
PyBool(b)     == [py |-> "bool", bool |-> b]
PyInt(n)      == [py |-> "int", int |-> n]
PyStr(text)   == [py |-> "str", str |-> text]
PyDatetime(t) == [py |-> "datetime", datetime |-> t]
PyList(xs)    == [py |-> "list", items |-> xs]
PyTuple(xs)   == [py |-> "tuple", items |-> xs]
PyDict(kvs)   == [py |-> "dict", pairs |-> kvs]  \* kvs: sequence of <<key, value>>

\* bool(x), as `if cached_data:` takes it
Truthy(x) ==
    CASE x.py = "NoneType" -> FALSE
      [] x.py = "bool"     -> x.bool
      [] x.py = "int"      -> x.int # 0
      [] x.py = "str"      -> x.str # Literal("")
      [] x.py \in {"list", "tuple"} -> x.items # <<>>
      [] x.py = "dict"     -> x.pairs # <<>>
      [] OTHER             -> TRUE

\* a dict key as JSON writes it: str keys as they are, int keys as str(int)
JsonKey(k) == IF k.py = "str" THEN k.str ELSE StrOfInt(k.int)

JsonString(text) == [js |-> "string", string |-> text]

RECURSIVE Dumps(_)
Dumps(x) ==
    CASE x.py = "NoneType" -> [js |-> "null"]
      [] x.py = "bool"     -> [js |-> "boolean", boolean |-> x.bool]
      [] x.py = "int"      -> [js |-> "number", number |-> x.int]
      [] x.py = "str"      -> JsonString(x.str)
      [] x.py \in {"list", "tuple"} ->
            [js |-> "array",
             elements |-> [i \in 1..Len(x.items) |-> Dumps(x.items[i])]]
      [] x.py = "dict"     ->
            [js |-> "object",
             members |-> [i \in 1..Len(x.pairs) |->
                            <<JsonKey(x.pairs[i][1]), Dumps(x.pairs[i][2])>>]]
      [] OTHER             -> JsonString(StrOfDatetime(x.datetime))

RECURSIVE Loads(_)
Loads(j) ==
    CASE j.js = "null"    -> PyNone
      [] j.js = "boolean" -> PyBool(j.boolean)
      [] j.js = "number"  -> PyInt(j.number)
      [] j.js = "string"  -> PyStr(j.string)
      [] j.js = "array"   ->
            PyList([i \in 1..Len(j.elements) |-> Loads(j.elements[i])])
      [] OTHER            ->
            PyDict([i \in 1..Len(j.members) |->
                      <<PyStr(j.members[i][1]), Loads(j.members[i][2])>>])

(***************************************************************************)
(* services/cache_service.py.  Two CacheService instances exist: "api" is  *)
(* the module-level cache_service of api/recommendations.py, "pre" is      *)
(* PrecomputeService.cache_service.  Both name the same Redis server.      *)
(* self.redis is "None", "Redis" (a client of the server) or               *)
(* "InMemoryCache" (a map private to the instance).                        *)
(* A key is the sequence of the pieces of its text; ":" joins them.        *)
(***************************************************************************)
Services == {"api", "pre"}

cache_prefix == "what_to_do"
MakeKey(key) == <<cache_prefix>> \o key

\* PrecomputeService._get_active_user_ids and _get_recently_active_users;
\* the model keeps the first MaxUsers of each list
MaxUsers == 1
ActiveUserIds == SubSeq(<<51, 1, 74, 2, 7>>, 1, Min(5, MaxUsers))
RecentlyActiveUsers == SubSeq(<<51, 1>>, 1, Min(2, MaxUsers))
Users == Range(ActiveUserIds)

UserKey(user_id) == <<"recommendations", "user", StrOfInt(user_id)>>
TestKeys         == {UserKey(51), <<"test_key">>}
Keys             == {UserKey(u) : u \in Users} \cup TestKeys
CacheKeys        == {MakeKey(k) : k \in Keys}
Patterns         == {<<"recommendations", "*">>}

\* a slot of the Redis database or of InMemoryCache.cache
Absent == [present |-> FALSE, data |-> Dumps(PyNone), expires |-> FALSE,
           expire_at |-> 0]
Stored(data) == [present |-> TRUE, data |-> data, expires |-> FALSE,
                 expire_at |-> 0]
StoredEx(data, at) == [present |-> TRUE, data |-> data, expires |-> TRUE,
                       expire_at |-> at]

\* Redis drops a key when its time to live has run out
Expired(slot, t) == slot.present /\ slot.expires /\ slot.expire_at <= t

\* KEYS pattern: the pieces match one by one, "*" matches the rest
RECURSIVE GlobMatch(_, _)
GlobMatch(p, k) ==
    IF p = <<>> THEN k = <<>>
    ELSE IF Head(p) = "*" THEN TRUE
    ELSE k # <<>> /\ Head(k) = Head(p) /\ GlobMatch(Tail(p), Tail(k))

\* _get_redis: the connection it can return.  redis.from_url is called only
\* while self.redis is None; with the server down it either raises (the
\* except branch installs an InMemoryCache) or hands back a client that
\* connects on its first command.
Conns(s) ==
    IF redis[s] # "None" THEN {redis[s]}
    ELSE IF redis_up THEN {"Redis"}
    ELSE {"Redis", "InMemoryCache"}

GetRedis(s, c) ==
    /\ redis' = [redis EXCEPT ![s] = c]
    /\ warnings' = [warnings EXCEPT
                      ![s] = IF redis[s] = "None" /\ c = "InMemoryCache"
                             THEN @ + 1 ELSE @]

\* a command sent to the server while it is down raises
Raises(c) == c = "Redis" /\ ~redis_up

Backend(c, s) == IF c = "InMemoryCache" THEN cache[s] ELSE redis_db

\* CacheService.get: what it returns
CacheGet(c, s, key) ==
    IF Raises(c) THEN PyNone
    ELSE LET slot == Backend(c, s)[MakeKey(key)]
         IN  IF slot.present THEN Loads(slot.data) ELSE PyNone

\* CacheService.set: what it returns, and the slot it writes
CacheSet(c) == PyBool(~Raises(c))
SetSlot(c, value, ttl) ==
    IF ttl # 0 /\ c = "Redis" THEN StoredEx(Dumps(value), now + ttl)
    ELSE Stored(Dumps(value))

\* CacheService.delete and CacheService.exists: what they return
CacheDelete(c, s, key) ==
    PyBool(~Raises(c) /\ Backend(c, s)[MakeKey(key)].present)
CacheExists(c, s, key) ==
    PyBool(~Raises(c) /\ Backend(c, s)[MakeKey(key)].present)

\* CacheService.clear_pattern: the keys redis.keys(cache_pattern) lists
\* (InMemoryCache.keys lists every key), and what clear_pattern returns.
\* InMemoryCache.delete takes one key: delete(*keys) with two or more keys
\* is a TypeError, caught at line 115.
ListedKeys(c, s, pattern) ==
    {ck \in CacheKeys :
        /\ Backend(c, s)[ck].present
        /\ c = "Redis" => GlobMatch(MakeKey(pattern), ck)}
ClearedKeys(c, s, pattern) ==
    IF Raises(c) THEN {}
    ELSE IF c = "InMemoryCache" /\ Cardinality(ListedKeys(c, s, pattern)) > 1
    THEN {}
    ELSE ListedKeys(c, s, pattern)
CacheClearPattern(c, s, pattern) ==
    PyInt(Cardinality(ClearedKeys(c, s, pattern)))

(***************************************************************************)
(* The calls of CacheService.  In the cache specification cache_call       *)
(* records the last call and what it returned: whether the server was up   *)
(* at the call, and for a set its value, its ttl and the time of the call. *)
(***************************************************************************)
NoCall == [op |-> "none", svc |-> "", key |-> <<>>, value |-> PyNone,
           ttl |-> 0, at |-> 0, up |-> TRUE, ret |-> PyNone]
Call(op, s, key, ret) ==
    [op |-> op, svc |-> s, key |-> key, value |-> PyNone, ttl |-> 0,
     at |-> 0, up |-> redis_up, ret |-> ret]
SetCall(s, key, value, ttl, ret) ==
    [op |-> "set", svc |-> s, key |-> key, value |-> value, ttl |-> ttl,
     at |-> now, up |-> redis_up, ret |-> ret]

StoreUnchanged == UNCHANGED <<redis_db, cache>>

\* the slot at MakeKey(key) of the backend behind connection c becomes slot
StoreSlot(c, s, key, slot) ==
    IF c = "InMemoryCache"
    THEN /\ cache' = [cache EXCEPT ![s][MakeKey(key)] = slot]
         /\ UNCHANGED redis_db
    ELSE /\ redis_db' = [redis_db EXCEPT ![MakeKey(key)] = slot]
         /\ UNCHANGED cache

\* what each call does to the instance and to the backend, c being the
\* connection _get_redis returned
DoGet(c, s, key) ==
    /\ GetRedis(s, c)
    /\ StoreUnchanged
    /\ UNCHANGED <<now, redis_up>>

DoSet(c, s, key, value, ttl) ==
    /\ GetRedis(s, c)
    /\ IF Raises(c) THEN StoreUnchanged
       ELSE StoreSlot(c, s, key, SetSlot(c, value, ttl))
    /\ UNCHANGED <<now, redis_up>>

DoDelete(c, s, key) ==
    /\ GetRedis(s, c)
    /\ IF Raises(c) THEN StoreUnchanged
       ELSE StoreSlot(c, s, key, Absent)
    /\ UNCHANGED <<now, redis_up>>

DoExists(c, s, key) ==
    /\ GetRedis(s, c)
    /\ StoreUnchanged
    /\ UNCHANGED <<now, redis_up>>

DoClearPattern(c, s, pattern) ==
    LET gone == ClearedKeys(c, s, pattern) IN
    /\ GetRedis(s, c)
    /\ IF c = "InMemoryCache"
       THEN /\ cache' = [cache EXCEPT
                  ![s] = [ck \in CacheKeys |->
                             IF ck \in gone THEN Absent ELSE @[ck]]]
            /\ UNCHANGED redis_db
       ELSE /\ redis_db' = [ck \in CacheKeys |->
                               IF ck \in gone THEN Absent ELSE redis_db[ck]]
            /\ UNCHANGED cache
    /\ UNCHANGED <<now, redis_up>>

(***************************************************************************)
(* The environment of the cache: the clock, and the Redis server going     *)
(* away and coming back (its data stays).                                  *)
(***************************************************************************)
MaxClock   == 3600
ClockSteps == {3600}

Tick ==
    \E d \in ClockSteps :
        /\ now + d <= MaxClock
        /\ now' = now + d
        /\ redis_db' = [ck \in CacheKeys |->
                           IF Expired(redis_db[ck], now + d) THEN Absent
                           ELSE redis_db[ck]]
        /\ UNCHANGED <<redis_up, redis, cache, warnings, cache_call>>

RedisGoesDown ==
    /\ redis_up
    /\ redis_up' = FALSE
    /\ UNCHANGED <<now, redis_db, redis, cache, warnings, cache_call>>

RedisComesUp ==
    /\ ~redis_up
    /\ redis_up' = TRUE
    /\ UNCHANGED <<now, redis_db, redis, cache, warnings, cache_call>>

InitCacheWorld ==
    /\ now = 0
    /\ redis_db = [ck \in CacheKeys |-> Absent]
    /\ redis = [s \in Services |-> "None"]
    /\ cache = [s \in Services |-> [ck \in CacheKeys |-> Absent]]
    /\ warnings = [s \in Services |-> 0]
    /\ cache_call = NoCall

IdleCache == InitCacheWorld /\ redis_up = TRUE

(***************************************************************************)
(* Cache specification: any caller of the two CacheService instances.      *)
(***************************************************************************)
test_value  == PyDict(<< <<PyStr(Literal("message")), PyStr(Literal("hello"))>>,
                         <<PyStr(Literal("number")), PyInt(42)>> >>)
stamp_value == PyDict(<< <<PyStr(Literal("last_updated")), PyDatetime(0)>> >>)
CacheValues  == {test_value, stamp_value}
CacheTtls    == {0, 60, 7200}
CacheCallers == {"api"}

InitCache == InitCacheWorld /\ redis_up \in BOOLEAN

Get ==
    \E s \in CacheCallers, k \in TestKeys : \E c \in Conns(s) :
        /\ DoGet(c, s, k)
        /\ cache_call' = Call("get", s, k, CacheGet(c, s, k))
        /\ UNCHANGED notCache
Set ==
    \E s \in CacheCallers, k \in TestKeys, v \in CacheValues, ttl \in CacheTtls :
        \E c \in Conns(s) :
            /\ DoSet(c, s, k, v, ttl)
            /\ cache_call' = SetCall(s, k, v, ttl, CacheSet(c))
            /\ UNCHANGED notCache
Delete ==
    \E s \in CacheCallers, k \in TestKeys : \E c \in Conns(s) :
        /\ DoDelete(c, s, k)
        /\ cache_call' = Call("delete", s, k, CacheDelete(c, s, k))
        /\ UNCHANGED notCache
Exists ==
    \E s \in CacheCallers, k \in TestKeys : \E c \in Conns(s) :
        /\ DoExists(c, s, k)
        /\ cache_call' = Call("exists", s, k, CacheExists(c, s, k))
        /\ UNCHANGED notCache
ClearPattern ==
    \E s \in CacheCallers, p \in Patterns : \E c \in Conns(s) :
        /\ DoClearPattern(c, s, p)
        /\ cache_call' = Call("clear_pattern", s, p, CacheClearPattern(c, s, p))
        /\ UNCHANGED notCache
ClockTick == Tick /\ UNCHANGED notCache
Outage    == RedisGoesDown /\ UNCHANGED notCache
Recovery  == RedisComesUp /\ UNCHANGED notCache

(***************************************************************************)
(* What the request path and the scheduler put in the cache.               *)
(* The upstream state of a user is the list of course selections still     *)
(* pending: each completed task removes the first one.                     *)
(***************************************************************************)
MaxDone == 1

PendingSelections == <<Sel(1, 101, 47), Sel(2, 102, 60)>>
UpstreamOf(n) ==
    [selections  |-> SubSeq(PendingSelections, n + 1, Len(PendingSelections)),
     all_courses |-> <<Course(103, 12)>>,
     projects    |-> <<Proj(201, TRUE, 239, 15, 300)>>,
     goal        |-> NoGoal,
     reports     |-> <<>>]

Field(name, value) == <<PyStr(Literal(name)), value>>

\* rec.dict() of a RecommendationItem created at time t
ItemDict(rec, t) ==
    PyDict(<<Field("id", PyInt(rec.id)),
             Field("type", PyStr(Literal(rec.type))),
             Field("score", PyInt(rec.score)),
             Field("urgency", PyInt(rec.urgency)),
             Field("importance", PyInt(rec.importance)),
             Field("personal_fit", PyInt(rec.personal_fit)),
             Field("growth_value", PyInt(rec.growth_value)),
             Field("urgency_level", PyStr(Literal(rec.urgency_level))),
             Field("created_at", PyDatetime(t))>>)

\* recommendation_engine.generate_recommendations(user_id, token) called
\* when n tasks of the user are completed
\* the replies of the upstream reads at the moment: the goal reply may be
\* malformed, and the reads in `failed` raise
Replies(n) == [UpstreamOf(n) EXCEPT !.goal = upstream.goal]
Engine(n) ==
    GenerateRecommendations(algorithm_weights,
                            FetchUserData(use_mock_data, Replies(n), failed))

\* the upstream API goes down: every read of _fetch_user_data raises
UpstreamFails ==
    /\ failed = {} /\ upstream.goal = NoGoal
    /\ failed' = Sources
    /\ UNCHANGED <<use_mock_data, upstream, gpc, user_data, gen_result, notGen>>

\* the upstream API returns a goal without its start_time
GoalMalformed ==
    /\ failed = {} /\ upstream.goal = NoGoal
    /\ upstream' = [upstream EXCEPT !.goal = BadGoal]
    /\ UNCHANGED <<use_mock_data, failed, gpc, user_data, gen_result, notGen>>

\* the upstream API answers as before again
UpstreamBack ==
    /\ failed # {} \/ upstream.goal # NoGoal
    /\ failed' = {}
    /\ upstream' = [upstream EXCEPT !.goal = NoGoal]
    /\ UNCHANGED <<use_mock_data, gpc, user_data, gen_result, notGen>>

\* [rec.dict() for rec in recommendations], the items created at time t
ItemDicts(recs, t) == PyList([i \in 1..Len(recs) |-> ItemDict(recs[i], t)])

cache_ttl_used == 7200      \* ttl=7200 at both call sites
default_cache_ttl == 7200   \* Settings.cache_ttl: int = 7200
\* the values CACHE_TTL is given: the default and a shorter one
ConfiguredTtls == {default_cache_ttl, default_cache_ttl \div 2}
InitSettings == cache_ttl \in ConfiguredTtls
IdleSettings == cache_ttl = default_cache_ttl
RefreshAfter   == 2 * 3600  \* timedelta(hours=2)
StaleAfter     == 3600      \* refresh threshold of _refresh_active_users

\* api: response_data.dict()
ResponseDict(items, user_id, t) ==
    PyDict(<<Field("recommendations", items),
             Field("user_id", PyInt(user_id)),
             Field("last_updated", PyDatetime(t)),
             Field("next_refresh", PyDatetime(t + RefreshAfter)),
             Field("algorithm_version", PyStr(Literal("1.0")))>>)

\* scheduler: cache_data
CacheData(items, user_id, t) ==
    PyDict(<<Field("recommendations", items),
             Field("user_id", PyInt(user_id)),
             Field("last_updated", PyStr(IsoFormat(t))),
             Field("next_refresh", PyStr(IsoFormat(t + RefreshAfter))),
             Field("algorithm_version", PyStr(Literal("1.0")))>>)

\* d[name] of a dict; a missing key is a KeyError
HasField(d, name) ==
    d.py = "dict" /\ \E i \in 1..Len(d.pairs) : d.pairs[i][1] = PyStr(Literal(name))
GetField(d, name) ==
    d.pairs[CHOOSE i \in 1..Len(d.pairs) : d.pairs[i][1] = PyStr(Literal(name))][2]

\* datetime.fromisoformat(x) parses "YYYY-MM-DD HH:MM:SS" with either
\* separator; anything else is a TypeError or a ValueError
ParsesAsIso(x) == x.py = "str" /\ DOMAIN x.str = {"date", "sep"}
FromIsoFormat(x) == x.str.date

(***************************************************************************)
(* api/recommendations.py: get_top3_recommendations and submit_feedback.   *)
(* extract_user_id returns 51 for every caller.  A request is a coroutine: *)
(* it runs from one await that reaches the network to the next in one      *)
(* step.  Two requests may be in flight.                                   *)
(***************************************************************************)
Requests      == {"r1", "r2"}
FeedbackTypes == {"like", "dislike", "click", "complete"}
MaxFeedback   == 1

extract_user_id == 51

NoRequest ==
    [pc |-> "idle", refresh |-> FALSE, cached_data |-> PyNone,
     engine_calls |-> 0, cache_sets |-> 0, response_data |-> PyNone,
     code |-> 0, data |-> PyNone]

\* lines 58-60: where the handler goes after the cache read
AlwaysGenerate(cached_data) == "generate"
AfterCacheRead(cached_data) ==
    IF Truthy(cached_data) THEN "return" ELSE "generate"

\* the request arrives; with refresh=true the cache is not read
ReqStart(r) ==
    \E refresh \in BOOLEAN :
        /\ req[r].pc \in {"idle", "done"}
        /\ req' = [req EXCEPT ![r] =
                     [NoRequest EXCEPT !.pc = IF refresh THEN "generate" ELSE "get",
                                       !.refresh = refresh]]
        /\ UNCHANGED <<tasks_done, feedback_log, precompute, refreshing,
                       cacheVars, notApp>>

\* lines 59-69: cached_data = await cache_service.get(cache_key)
ReqCacheGet(r) ==
    /\ req[r].pc = "get"
    /\ \E c \in Conns("api") :
         LET cached_data == CacheGet(c, "api", UserKey(extract_user_id)) IN
         /\ DoGet(c, "api", UserKey(extract_user_id))
         /\ req' = [req EXCEPT ![r] =
                      IF AfterCacheRead(cached_data) = "return"
                      THEN [@ EXCEPT !.pc = "done", !.cached_data = cached_data,
                                     !.code = 200, !.data = cached_data]
                      ELSE [@ EXCEPT !.pc = "generate",
                                     !.cached_data = cached_data]]
    /\ UNCHANGED <<tasks_done, feedback_log, precompute, refreshing,
                   cache_call, notApp>>

\* lines 73-82: the engine is called and the response is built; an
\* exception is answered with status 500 (lines 97-99)
ReqGenerate(r) ==
    /\ req[r].pc = "generate"
    /\ LET out == Engine(tasks_done[extract_user_id]) IN
       req' = [req EXCEPT ![r] =
                 IF out.raised
                 THEN [@ EXCEPT !.pc = "done", !.engine_calls = @ + 1,
                                !.code = 500]
                 ELSE [@ EXCEPT !.pc = "set", !.engine_calls = @ + 1,
                                !.response_data =
                                    ResponseDict(ItemDicts(out.recs, now),
                                                 extract_user_id, now)]]
    /\ UNCHANGED <<tasks_done, feedback_log, precompute, refreshing,
                   cacheVars, notApp>>

\* lines 85-93: await cache_service.set(cache_key, ..., ttl=7200); return
ReqCacheSet(r) ==
    /\ req[r].pc = "set"
    /\ \E c \in Conns("api") :
         DoSet(c, "api", UserKey(extract_user_id), req[r].response_data,
               cache_ttl_used)
    /\ req' = [req EXCEPT ![r] =
                 [@ EXCEPT !.pc = "done", !.cache_sets = @ + 1,
                           !.code = 200, !.data = req[r].response_data]]
    /\ UNCHANGED <<tasks_done, feedback_log, precompute, refreshing,
                   cache_call, notApp>>

\* submit_feedback with feedback_type = "complete": the user has completed
\* a pending task, and the handler deletes the user's entry (lines 131-134)
FeedbackComplete ==
    /\ tasks_done[extract_user_id] < MaxDone
    /\ tasks_done' = [tasks_done EXCEPT ![extract_user_id] = @ + 1]
    /\ feedback_log' = Min(feedback_log + 1, MaxFeedback)
    /\ \E c \in Conns("api") : DoDelete(c, "api", UserKey(extract_user_id))
    /\ UNCHANGED <<req, precompute, refreshing, cache_call, notApp>>

\* submit_feedback with any other feedback_type: a log line and the reply
FeedbackOther ==
    \E feedback_type \in FeedbackTypes \ {"complete"} :
        /\ feedback_log < MaxFeedback
        /\ feedback_log' = feedback_log + 1
        /\ UNCHANGED <<tasks_done, req, precompute, refreshing, cacheVars,
                       notApp>>

(***************************************************************************)
(* services/performance.py: the bodies of the three scheduler cycles, run  *)
(* by PrecomputeService with its own CacheService ("pre").  Each runs from *)
(* one await that reaches the network to the next in one step.             *)
(***************************************************************************)
NoCycle == [pc |-> "idle", i |-> 0, cache_data |-> PyNone]

\* the next user of the list, or the end of the cycle
NextUser(cycle, users, first_pc) ==
    IF cycle.i < Len(users)
    THEN [pc |-> first_pc, i |-> cycle.i + 1, cache_data |-> PyNone]
    ELSE NoCycle

\* what a cycle does with the engine's result for the user it is at: build
\* cache_data and go on to the set, or (an exception, caught in the loop
\* body) go on to the next user
AfterGenerate(cycle, users, first_pc) ==
    LET user_id == users[cycle.i]
        out     == Engine(tasks_done[user_id])
    IN  IF out.raised THEN NextUser(cycle, users, first_pc)
        ELSE [cycle EXCEPT
                !.pc = "set",
                !.cache_data = CacheData(ItemDicts(out.recs, now), user_id, now)]

\* _precompute_all_users, lines 94-99
PrecomputeStart ==
    /\ precompute.pc = "idle"
    /\ precompute' = NextUser(precompute, ActiveUserIds, "generate")
    /\ UNCHANGED <<tasks_done, feedback_log, req, refreshing, cacheVars, notApp>>

\* lines 100-117: generate_recommendations, then cache_data is built
PrecomputeGenerate ==
    /\ precompute.pc = "generate"
    /\ precompute' = AfterGenerate(precompute, ActiveUserIds, "generate")
    /\ UNCHANGED <<tasks_done, feedback_log, req, refreshing, cacheVars, notApp>>

\* lines 119-126: cache_service.set(cache_key, cache_data, ttl=7200), sleep
PrecomputeSet ==
    /\ precompute.pc = "set"
    /\ \E c \in Conns("pre") :
         DoSet(c, "pre", UserKey(ActiveUserIds[precompute.i]),
               precompute.cache_data, cache_ttl_used)
    /\ precompute' = NextUser(precompute, ActiveUserIds, "generate")
    /\ UNCHANGED <<tasks_done, feedback_log, req, refreshing, cache_call, notApp>>

\* _refresh_active_users, lines 142-145
RefreshStart ==
    /\ refreshing.pc = "idle"
    /\ refreshing' = NextUser(refreshing, RecentlyActiveUsers, "get")
    /\ UNCHANGED <<tasks_done, feedback_log, req, precompute, cacheVars, notApp>>

\* lines 153-161: should_refresh; an exception there skips the user
CannotReadAge(cached_data) ==
    \/ ~HasField(cached_data, "last_updated")
    \/ ~ParsesAsIso(GetField(cached_data, "last_updated"))
ShouldRefresh(cached_data, t) ==
    IF ~Truthy(cached_data) THEN TRUE
    ELSE t - FromIsoFormat(GetField(cached_data, "last_updated")) > StaleAfter

\* lines 150-161: cached_data = await self.cache_service.get(cache_key)
RefreshGet ==
    /\ refreshing.pc = "get"
    /\ \E c \in Conns("pre") :
         LET cached_data ==
                 CacheGet(c, "pre", UserKey(RecentlyActiveUsers[refreshing.i]))
         IN
         /\ DoGet(c, "pre", UserKey(RecentlyActiveUsers[refreshing.i]))
         /\ refreshing' =
               IF Truthy(cached_data) /\ CannotReadAge(cached_data)
               THEN NextUser(refreshing, RecentlyActiveUsers, "get")
               ELSE IF ShouldRefresh(cached_data, now)
               THEN [refreshing EXCEPT !.pc = "generate"]
               ELSE NextUser(refreshing, RecentlyActiveUsers, "get")
    /\ UNCHANGED <<tasks_done, feedback_log, req, precompute, cache_call, notApp>>

\* lines 163-174
RefreshGenerate ==
    /\ refreshing.pc = "generate"
    /\ refreshing' = AfterGenerate(refreshing, RecentlyActiveUsers, "get")
    /\ UNCHANGED <<tasks_done, feedback_log, req, precompute, cacheVars, notApp>>

\* lines 176-179
RefreshSet ==
    /\ refreshing.pc = "set"
    /\ \E c \in Conns("pre") :
         DoSet(c, "pre", UserKey(RecentlyActiveUsers[refreshing.i]),
               refreshing.cache_data, cache_ttl_used)
    /\ refreshing' = NextUser(refreshing, RecentlyActiveUsers, "get")
    /\ UNCHANGED <<tasks_done, feedback_log, req, precompute, cache_call, notApp>>

\* _cleanup_expired_cache
CleanupExpiredCache ==
    /\ \E c \in Conns("pre") :
         DoClearPattern(c, "pre", <<"recommendations", "*">>)
    /\ UNCHANGED <<cache_call, appVars, notApp>>

(***************************************************************************)
(* The three scheduler loops of PrecomputeService.  A task runs from one   *)
(* await to the next in one step; the time is taken at whole hours.        *)
(***************************************************************************)
MaxStarts == 1
MaxRestarts == 1
MaxRaised == 2
Loops == {"daily", "hourly", "cleanup"}
TaskIds == Loops \X (1..MaxStarts + MaxRestarts)
NoTaskId == <<"none", 0>>
DayHours == {5, 6}

NoTask == [pc |-> "none", sleep_seconds |-> 0]
Created == [pc |-> "created", sleep_seconds |-> 0]
Returned == [pc |-> "exit", sleep_seconds |-> 0]

\* what a loop waits before its cycle: the daily loop until the next 06:00
SleepSeconds(l, hour) ==
    CASE l = "daily"   -> IF hour >= 6 THEN (24 + 6 - hour) * 3600
                                       ELSE (6 - hour) * 3600
      [] l = "hourly"  -> 3600
      [] l = "cleanup" -> 6 * 3600

\* what a loop waits in its except clause
BackoffSeconds(l) ==
    CASE l = "daily"   -> 3600
      [] l = "hourly"  -> 1800
      [] l = "cleanup" -> 3600

\* `while self.running:` and the start of the try block, up to its sleep
WhileRunning(l, hour) ==
    IF running THEN [pc |-> "sleep", sleep_seconds |-> SleepSeconds(l, hour)]
               ELSE Returned

\* an exception leaves the task without a handler
Propagate(l) == Returned
\* `except Exception as e:` logs and sleeps
ExceptException(l) == [pc |-> "backoff", sleep_seconds |-> BackoffSeconds(l)]

\* lines 26-32: self.running = True and three create_task calls
CreateTasks ==
    /\ running' = TRUE
    /\ starts' = starts + 1
    /\ tasks' = [t \in TaskIds |->
                    IF t[2] = starts + 1 THEN Created ELSE tasks[t]]
    /\ UNCHANGED <<raised, last_raised, notLoops>>

\* the call of the application's lifespan; `if self.running: return`
start_background_tasks ==
    /\ ~running
    /\ starts < MaxStarts
    /\ CreateTasks

\* a later call of start_background_tasks
start_again ==
    /\ ~running
    /\ starts >= MaxStarts /\ starts < MaxStarts + MaxRestarts
    /\ CreateTasks

stop_background_tasks ==
    /\ running
    /\ running' = FALSE
    /\ UNCHANGED <<starts, tasks, raised, last_raised, notLoops>>

\* the event loop runs the new task for the first time
TaskBegins(t) ==
    /\ tasks[t].pc = "created"
    /\ \E hour \in DayHours :
         tasks' = [tasks EXCEPT ![t] = WhileRunning(t[1], hour)]
    /\ UNCHANGED <<running, starts, raised, last_raised, notLoops>>

\* the cycle is started whatever self.running is
AlwaysCycle(l) == [pc |-> "cycle", sleep_seconds |-> 0]
\* `if self.running:` starts the cycle; otherwise the while test ends the loop
IfRunning(l) ==
    IF running THEN [pc |-> "cycle", sleep_seconds |-> 0] ELSE Returned

\* the sleep of the try block is over
SleepOver(t) ==
    /\ tasks[t].pc = "sleep"
    /\ tasks' = [tasks EXCEPT ![t] = IfRunning(t[1])]
    /\ UNCHANGED <<running, starts, raised, last_raised, notLoops>>

\* the cycle returns and the loop tests self.running again
CycleReturns(t) ==
    /\ tasks[t].pc = "cycle"
    /\ \E hour \in DayHours :
         tasks' = [tasks EXCEPT ![t] = WhileRunning(t[1], hour)]
    /\ UNCHANGED <<running, starts, raised, last_raised, notLoops>>

\* an exception comes out of an await of the try block
BodyRaises(t) ==
    /\ tasks[t].pc \in {"sleep", "cycle"}
    /\ raised < MaxRaised
    /\ raised' = raised + 1
    /\ last_raised' = t
    /\ tasks' = [tasks EXCEPT ![t] = ExceptException(t[1])]
    /\ UNCHANGED <<running, starts, notLoops>>

\* the sleep of the except clause is over and the loop tests self.running
BackoffOver(t) ==
    /\ tasks[t].pc = "backoff"
    /\ \E hour \in DayHours :
         tasks' = [tasks EXCEPT ![t] = WhileRunning(t[1], hour)]
    /\ UNCHANGED <<running, starts, raised, last_raised, notLoops>>

\* what the event loop does for a task whose sleep is over
TaskRuns(t) ==
    TaskBegins(t) \/ SleepOver(t) \/ CycleReturns(t) \/ BackoffOver(t)

InitLoops ==
    /\ running = FALSE
    /\ starts = 0
    /\ tasks = [t \in TaskIds |-> NoTask]
    /\ raised = 0
    /\ last_raised = NoTaskId

IdleLoops == InitLoops

InitApp ==
    /\ tasks_done = [u \in Users |-> 0]
    /\ feedback_log = 0
    /\ req = [r \in Requests |-> NoRequest]
    /\ precompute = NoCycle
    /\ refreshing = NoCycle

IdleApp == InitApp

InitSelect == InitSel /\ IdleScore /\ IdleGen /\ IdleCache /\ IdleApp /\ IdleLoops /\ IdleUrgency /\ IdleSettings
NextSelect == AddCandidate \/ Select
SpecSelect == InitSelect /\ [][NextSelect]_vars

InitScorer == InitScore /\ IdleSel /\ IdleGen /\ IdleCache /\ IdleApp /\ IdleLoops /\ IdleUrgency /\ IdleSettings
NextScorer == CalcTotal
SpecScore  == InitScorer /\ [][NextScorer]_vars

InitEngine == InitGen /\ IdleSel /\ IdleScore /\ IdleCache /\ IdleApp /\ IdleLoops /\ IdleUrgency /\ IdleSettings
NextEngine == FetchData \/ Recommend
SpecGen    == InitEngine /\ [][NextEngine]_vars

InitCacheSpec ==
    InitCache /\ IdleSel /\ IdleScore /\ IdleGen /\ IdleApp /\ IdleLoops /\ IdleUrgency /\ IdleSettings
NextCache ==
    \/ Get \/ Set \/ Delete \/ Exists \/ ClearPattern
    \/ ClockTick \/ Outage \/ Recovery
SpecCache == InitCacheSpec /\ [][NextCache]_vars

\* the service: a request, feedback, the scheduler cycles, the clock, Redis
InitService ==
    /\ InitCache /\ InitApp /\ IdleSel /\ IdleScore /\ IdleGen /\ IdleLoops
    /\ IdleUrgency /\ InitSettings
Next ==
    \/ ReqStart("r1") \/ ReqCacheGet("r1") \/ ReqGenerate("r1")
    \/ ReqCacheSet("r1")
    \/ FeedbackComplete \/ FeedbackOther
    \/ PrecomputeStart \/ PrecomputeGenerate \/ PrecomputeSet
    \/ RefreshStart \/ RefreshGet \/ RefreshGenerate \/ RefreshSet
    \/ CleanupExpiredCache
    \/ ClockTick \/ Outage \/ Recovery
Spec == InitService /\ [][Next]_vars

\* concurrent requests of the user, the clock and Redis
NextRace ==
    \/ \E r \in Requests : ReqStart(r)
    \/ \E r \in Requests : ReqCacheGet(r)
    \/ \E r \in Requests : ReqGenerate(r)
    \/ \E r \in Requests : ReqCacheSet(r)
    \/ ClockTick \/ Outage \/ Recovery
SpecRace == InitService /\ [][NextRace]_vars

\* one call of _calculate_urgency_score
InitUrgencySpec ==
    /\ InitUrgency /\ IdleSel /\ IdleScore /\ IdleGen /\ IdleCache /\ IdleApp
    /\ IdleLoops /\ IdleSettings
NextUrgency == CalcUrgency
SpecUrgency == InitUrgencySpec /\ [][NextUrgency]_vars

\* the scheduler loops; the event loop lets every task that can run, run
InitScheduler ==
    /\ InitLoops /\ IdleSel /\ IdleScore /\ IdleGen /\ IdleCache /\ IdleApp
    /\ IdleUrgency /\ IdleSettings
NextLoops ==
    \/ start_background_tasks \/ stop_background_tasks
    \/ \E t \in TaskIds : TaskBegins(t)
    \/ \E t \in TaskIds : SleepOver(t)
    \/ \E t \in TaskIds : CycleReturns(t)
    \/ \E t \in TaskIds : BodyRaises(t)
    \/ \E t \in TaskIds : BackoffOver(t)
\* a request and the scheduler cycles while the upstream API fails and
\* recovers
NextOutage ==
    \/ ReqStart("r1") \/ ReqCacheGet("r1") \/ ReqGenerate("r1")
    \/ ReqCacheSet("r1")
    \/ PrecomputeStart \/ PrecomputeGenerate \/ PrecomputeSet
    \/ RefreshStart \/ RefreshGet \/ RefreshGenerate \/ RefreshSet
    \/ ClockTick
    \/ UpstreamFails \/ GoalMalformed \/ UpstreamBack
SpecOutage == InitService /\ [][NextOutage]_vars

\* the scheduler loops when the service is started again after a stop
NextRestart == NextLoops \/ start_again
SpecRestart == InitScheduler /\ [][NextRestart]_vars

SpecLoops ==
    /\ InitScheduler
    /\ [][NextLoops]_vars
    /\ \A t \in TaskIds :
          WF_vars(TaskRuns(t))

(***************************************************************************)
(* Properties.                                                             *)
(***************************************************************************)
\* C1: for every subset of the five upstream reads that fails, including all
\* five, generate_recommendations returns a list (of at most 3 items, possibly
\* empty) and no exception reaches its caller, whatever the other reads
\* returned.
C1_GenerateNeverRaises ==
    gen_result.done =>
        /\ ~gen_result.val.raised
        /\ Len(gen_result.val.recs) <= 3

\* all five reads failed and the call returned the empty list
C1_Witness ==
    /\ gen_result.done
    /\ ~use_mock_data
    /\ failed = Sources
    /\ gen_result.val = NoRecs

\* the part of a type name before its first '_'
TopLevel(type) == type[1]
CategoriesOf(recs) == {TopLevel(recs[i].type) : i \in 1..Len(recs)}

\* C2: for every non-empty pool the selector returns at most 3 items, and
\* when the pool holds candidates of at least 3 distinct top-level
\* categories the returned items are 3 items of pairwise distinct categories.
C2_DiverseTop3 ==
    (top3.done /\ recommendations # <<>>) =>
        /\ Len(top3.val) <= 3
        /\ Cardinality(CategoriesOf(recommendations)) >= 3 =>
               /\ Len(top3.val) = 3
               /\ Cardinality(CategoriesOf(top3.val)) = 3

\* a pool of 4 with 3 categories whose three best scores share a category,
\* and a selection that nevertheless spans 3 categories
C2_Witness ==
    /\ top3.done
    /\ Len(recommendations) = 4
    /\ Cardinality(CategoriesOf(recommendations)) = 3
    /\ Cardinality(CategoriesOf(NoDiversitySelect(recommendations))) < 3
    /\ Cardinality(CategoriesOf(top3.val)) = 3

WeightsSumToOne(w) ==
    w.urgency + w.importance + w.personal_fit + w.growth_value = 100
WeightsNonNegative(w) ==
    w.urgency >= 0 /\ w.importance >= 0 /\ w.personal_fit >= 0
        /\ w.growth_value >= 0
SubScoresInRange(a) == \A i \in 1..Len(a) : a[i] >= 0 /\ a[i] <= 100
TotalInRange == total_score.val >= 0 /\ total_score.val <= 100 * 100

\* C3 as stated: for every weight configuration whose weights sum to 1.0 and
\* all four sub-scores in [0,100], the total score lies in [0,100].
C3_AnyWeights ==
    (total_score.done /\ WeightsSumToOne(algorithm_weights)
        /\ SubScoresInRange(score_args)) => TotalInRange

\* C3 amended: for every configuration of non-negative weights summing to 1.0
\* and all four sub-scores in [0,100], the total score lies in [0,100].
C3_NonNegativeWeights ==
    (total_score.done /\ WeightsSumToOne(algorithm_weights)
        /\ WeightsNonNegative(algorithm_weights)
        /\ SubScoresInRange(score_args)) => TotalInRange

\* a non-default configuration of non-negative weights reaching the top of
\* the range
C3_Witness ==
    /\ total_score.done
    /\ algorithm_weights # DefaultWeights
    /\ WeightsSumToOne(algorithm_weights)
    /\ WeightsNonNegative(algorithm_weights)
    /\ score_args = <<100, 100, 100, 100>>
    /\ total_score.val = 100 * 100


\* C4: after set(key, v, ttl) on a CacheService, a get(key) issued within the
\* TTL returns exactly v and exists(key) is true; after delete(key) returned
\* true, get(key) returns None until the next set of that key.  (The step is
\* the call that follows the set or the delete of the same key on the same
\* instance; the clock and the server may have moved in between.)
SameTarget ==
    cache_call'.svc = cache_call.svc /\ cache_call'.key = cache_call.key
AfterSet == cache_call.op = "set" /\ SameTarget
WithinTtl == cache_call.ttl = 0 \/ now < cache_call.at + cache_call.ttl
AfterDelete ==
    cache_call.op = "delete" /\ cache_call.ret = PyBool(TRUE) /\ SameTarget
C4_SetGetDelete ==
    [][/\ (Get /\ AfterSet /\ WithinTtl) => cache_call'.ret = cache_call.value
       /\ (Exists /\ AfterSet /\ WithinTtl) => cache_call'.ret = PyBool(TRUE)
       /\ (Get /\ AfterDelete) => cache_call'.ret = PyNone]_vars

\* C5: while the Redis server is unreachable, set(key, v, ttl) returns True
\* and a get(key) that follows it returns v, served by the in-process
\* fallback; neither call reports failure.
C5_UnreachableStoreFallsBack ==
    [][/\ (Set /\ ~redis_up) => cache_call'.ret = PyBool(TRUE)
       /\ (Get /\ ~redis_up /\ AfterSet /\ ~cache_call.up /\ WithinTtl)
              => cache_call'.ret = cache_call.value]_vars

\* C6: a top-3 request with refresh=false that finds an entry of the user in
\* the cache answers 200 with that entry, calls the engine zero times and
\* writes the cache zero times; a request calls the engine only after a miss
\* or with refresh=true.
FoundInCache(r) == ~req[r].refresh /\ Truthy(req[r].cached_data)
C6_HitServedFromCache ==
    \A r \in Requests :
        /\ (req[r].pc = "done" /\ FoundInCache(r)) =>
               /\ req[r].code = 200
               /\ req[r].data = req[r].cached_data
               /\ req[r].engine_calls = 0
               /\ req[r].cache_sets = 0
        /\ req[r].engine_calls > 0 =>
               (req[r].refresh \/ ~Truthy(req[r].cached_data))
        /\ req[r].cache_sets <= req[r].engine_calls

\* a request answered from the cache while the other one regenerated
C6_Witness ==
    /\ req["r1"].pc = "done" /\ FoundInCache("r1")
    /\ HasField(req["r1"].data, "recommendations")
    /\ req["r2"].pc = "done" /\ req["r2"].engine_calls = 1

\* the times the clock can show
ClockValues == {t \in 0..MaxClock : \E d \in ClockSteps : t % d = 0}

\* the numbers n of completed tasks for which the engine yields the
\* recommendations of this cache entry
GeneratedFrom(entry) ==
    {n \in 0..MaxDone :
        \E t \in ClockValues :
            GetField(entry, "recommendations")
                = Loads(Dumps(ItemDicts(Engine(n).recs, t)))}

\* C7: once a 'complete' feedback of the user has been processed, a read
\* with refresh=false is never answered from an entry generated before that
\* completion (from fewer completed tasks than the user has at the read),
\* whatever requests and scheduler cycles are in flight; a feedback of any
\* other type leaves the cache as it is.
C7_CompleteInvalidates ==
    [][/\ \A r \in Requests :
            (ReqCacheGet(r) /\ Truthy(req'[r].cached_data)) =>
                \A n \in GeneratedFrom(req'[r].cached_data) :
                    n >= tasks_done[extract_user_id]
       /\ FeedbackOther => UNCHANGED <<redis_db, cache>>]_vars

\* the slot of the user's key in the backend an instance is connected to
SlotOf(s) == Backend(redis[s], s)[MakeKey(UserKey(extract_user_id))]
SchedulerWrote(slot) ==
    /\ slot.present
    /\ HasField(Loads(slot.data), "last_updated")
    /\ GetField(Loads(slot.data), "last_updated").str = 
           IsoFormat(FromIsoFormat(GetField(Loads(slot.data), "last_updated")))

\* C8: while an entry the scheduler wrote for the user is in the scheduler's
\* store, a request-path read of the user gets exactly that entry as a hit,
\* with Redis in use and with the in-process fallback in use alike.
C8_SchedulerEntryIsRead ==
    [][\A r \in Requests :
          (ReqCacheGet(r) /\ redis["pre"] # "None" /\ SchedulerWrote(SlotOf("pre")))
              => req'[r].cached_data = Loads(SlotOf("pre").data)]_vars

\* C9: when two requests of the user both missed the cache and both
\* regenerated, both are answered 200, and when the second of them has
\* written the user's entry is exactly what it wrote.
BothMissed(r, other) ==
    /\ r # other
    /\ ~req[r].refresh /\ ~req[other].refresh
    /\ req[r].engine_calls = 1 /\ req[other].engine_calls = 1
    /\ req[other].pc = "done"
C9_LastWriteWins ==
    [][\A r, other \in Requests :
          (ReqCacheSet(r) /\ BothMissed(r, other)) =>
              /\ req'[r].code = 200 /\ req[other].code = 200
              /\ SlotOf("api")'.present
              /\ SlotOf("api")'.data = Dumps(req[r].response_data)]_vars

\* C10: an exception raised in the body of one of the three scheduler loops
\* takes that loop to its back-off and changes no other loop; a loop returns
\* only when the service is not running; a loop in back-off begins another
\* iteration unless the service is stopped, and every loop that is sleeping
\* goes on, whatever the other loops raised.
C10_LoopsSurviveErrors ==
    /\ [][\A t \in TaskIds :
            /\ BodyRaises(t) =>
                   /\ tasks'[t].pc = "backoff"
                   /\ \A o \in TaskIds \ {t} : tasks'[o] = tasks[o]
            /\ (tasks[t].pc # "exit" /\ tasks'[t].pc = "exit") => ~running]_vars
    /\ \A t \in TaskIds :
          (tasks[t].pc = "backoff") ~> (tasks[t].pc = "sleep" \/ ~running)
    /\ \A o \in TaskIds : (tasks[o].pc = "sleep") ~> (tasks[o].pc # "sleep")

\* the hourly loop raised, backed off and runs its next cycle; the other
\* two loops are in their iterations
C10_Witness ==
    /\ running
    /\ last_raised = <<"hourly", 1>>
    /\ tasks[<<"hourly", 1>>].pc = "cycle"
    /\ \A l \in {"daily", "cleanup"} : tasks[<<l, 1>>].pc \in {"sleep", "cycle"}

\* C11: a scheduler loop returns only when start_background_tasks has run
\* and the stop signal is set (self.running is False); no loop starts a
\* recompute, refresh or sweep cycle while the signal is set; and from the
\* moment the signal is set every loop that was created returns, as long as
\* the signal stays set.
StopSignal == starts > 0 /\ ~running
Alive(t) == tasks[t].pc \notin {"none", "exit"}
C11_LoopsStopOnSignal ==
    /\ [][\A t \in TaskIds :
            /\ (tasks[t].pc # "exit" /\ tasks'[t].pc = "exit") => StopSignal
            /\ (tasks[t].pc # "cycle" /\ tasks'[t].pc = "cycle") => ~StopSignal]_vars
    /\ \A t \in TaskIds :
          (StopSignal /\ Alive(t)) ~> (tasks[t].pc = "exit" \/ ~StopSignal)

\* the signal is set and the three loops have returned, after their bodies
\* raised and were resumed
C11_Witness ==
    /\ StopSignal
    /\ starts > 0
    /\ \A t \in TaskIds : t[2] <= starts => tasks[t].pc = "exit"
    /\ raised = MaxRaised

\* C12: every non-empty list the selector returns has its items in
\* non-increasing score order.
NonIncreasing(recs) ==
    \A i \in 1..Len(recs) - 1 : recs[i].score >= recs[i + 1].score
C12_ResultSortedByScore ==
    (top3.done /\ top3.val # <<>>) => NonIncreasing(top3.val)

\* the items of val are different members of the pool: each is the pool's
\* item at a position of its own
DifferentMembers(val, pool) ==
    \E at \in [1..Len(val) -> 1..Len(pool)] :
        /\ \A i, j \in 1..Len(val) : i # j => at[i] # at[j]
        /\ \A i \in 1..Len(val) : pool[at[i]] = val[i]

\* C13: for a pool of n candidates the selector returns exactly min(3, n)
\* items, each a different member of the pool; the empty pool gives the
\* empty list.
C13_ReturnsMin3 ==
    top3.done =>
        /\ Len(top3.val) = Min(3, Len(recommendations))
        /\ DifferentMembers(top3.val, recommendations)
        /\ (recommendations = <<>> => top3.val = <<>>)

\* the pool with the score of its i-th candidate set to s
WithScore(pool, i, s) == [pool EXCEPT ![i] = [@ EXCEPT !.score = s]]
StrictlyBest(pool, i) ==
    \A j \in 1..Len(pool) : j # i => pool[i].score > pool[j].score

\* C14: a candidate whose score is strictly above the score of every other
\* candidate of the pool is the first item of the result; and so it is when
\* the score of any candidate of the pool is raised above all the others,
\* the categories left as they are.
C14_BestScoreFirst ==
    top3.done =>
        \A i \in 1..Len(recommendations) :
            /\ StrictlyBest(recommendations, i) =>
                   top3.val[1] = recommendations[i]
            /\ \A s \in PoolScores :
                   LET raised_pool == WithScore(recommendations, i, s) IN
                   StrictlyBest(raised_pool, i) =>
                       SelectTop3WithDiversity(raised_pool)[1] = raised_pool[i]

\* the best candidate is the last of a full pool and shares its category
\* with an earlier one
C14_Witness ==
    /\ top3.done
    /\ Len(recommendations) = MaxPool
    /\ StrictlyBest(recommendations, MaxPool)
    /\ TypeCategory(recommendations[MaxPool].type)
           = TypeCategory(recommendations[1].type)
    /\ top3.val[1] = recommendations[MaxPool]

WeightedSum(w, a) ==
    a[1] * w.urgency + a[2] * w.importance + a[3] * w.personal_fit
        + a[4] * w.growth_value

\* C15 as stated: the total is min(100, weighted sum) and the default
\* weights give 84.25 for the inputs (85, 85, 90, 70).
C15_Gives8425 ==
    total_score.done =>
        /\ total_score.val = Min(100 * 100, WeightedSum(algorithm_weights, score_args))
        /\ (algorithm_weights = DefaultWeights /\ score_args = <<85, 85, 90, 70>>)
               => total_score.val = 8425

\* C15 amended: the total is min(100, weighted sum) and the default weights
\* give 84.75 for the inputs (85, 85, 90, 70).
C15_Gives8475 ==
    total_score.done =>
        /\ total_score.val = Min(100 * 100, WeightedSum(algorithm_weights, score_args))
        /\ (algorithm_weights = DefaultWeights /\ score_args = <<85, 85, 90, 70>>)
               => total_score.val = 8475

C15_Witness ==
    /\ total_score.done
    /\ algorithm_weights = DefaultWeights
    /\ score_args = <<85, 85, 90, 70>>
    /\ total_score.val = 8475

\* the level of a deadline h hours away under the default thresholds
LevelOfHours(h) ==
    IF h <= UrgencyCritical THEN "critical"
    ELSE IF h <= UrgencyHigh THEN "high"
    ELSE IF h <= UrgencyMedium THEN "medium"
    ELSE "low"

\* the hours left of the source records of a returned item
HoursLeftOf(item) ==
    IF item.type = COURSE_URGENT
    THEN {user_data.selections[i].hours_left :
             i \in {j \in 1..Len(user_data.selections) :
                       user_data.selections[j].sele_id = item.id}}
    ELSE IF item.type = TASK_CLAIM
    THEN {user_data.projects[i].hours_left :
             i \in {j \in 1..Len(user_data.projects) :
                       user_data.projects[j].id = item.id}}
    ELSE {}

\* C16: every course-urgent or project-claim item that generate returns has
\* the urgency level of the hours left to its deadline: critical up to 24,
\* high up to 72, medium up to 168, low beyond.
C16_LevelFollowsHoursLeft ==
    gen_result.done =>
        \A i \in 1..Len(gen_result.val.recs) :
            LET item == gen_result.val.recs[i] IN
            \A h \in HoursLeftOf(item) : item.urgency_level = LevelOfHours(h)

\* the last call was a set with a ttl that reported success, and more than
\* the ttl has gone by since
TtlElapsed ==
    /\ cache_call.op = "set" /\ cache_call.ret = PyBool(TRUE)
    /\ cache_call.ttl > 0
    /\ now > cache_call.at + cache_call.ttl

\* C17: a get of a key whose last set had a ttl, issued when more than the
\* ttl has gone by since that set, returns None, on Redis and on the
\* in-process fallback.
C17_ExpiredIsMiss ==
    [][(Get /\ TtlElapsed /\ SameTarget) => cache_call'.ret = PyNone]_vars

\* a call in which the instance makes its connection while the server is down
ConnectsWhileDown(s) == ~redis_up /\ redis[s] = "None" /\ redis'[s] # "None"
\* the instance keeps its fallback and logs nothing more; a get, set or
\* delete leaves every other key of the fallback map as it was
KeepsFallback(s) ==
    /\ redis'[s] = "InMemoryCache"
    /\ warnings'[s] = warnings[s]
    /\ cache_call'.op \in {"get", "set", "delete"} =>
           \A ck \in CacheKeys \ {MakeKey(cache_call'.key)} :
               cache'[s][ck] = cache[s][ck]

\* C18: with the server unreachable, the call in which a CacheService makes
\* its connection installs the in-process fallback and logs its warning
\* once; every later call of that CacheService logs no further warning and
\* works on the same fallback map.
C18_DegradedSignalOnce ==
    [][\A s \in CacheCallers :
          /\ ConnectsWhileDown(s) =>
                 (redis'[s] = "InMemoryCache" /\ warnings'[s] = warnings[s] + 1)
          /\ redis[s] = "InMemoryCache" => KeepsFallback(s)]_vars

\* a recommendation entry written less than its ttl ago
FreshEntry(slot) ==
    /\ slot.present
    /\ HasField(Loads(slot.data), "last_updated")
    /\ now < FromIsoFormat(GetField(Loads(slot.data), "last_updated"))
                 + cache_ttl_used

\* C19: a sweep cycle leaves every recommendation entry written less than
\* its ttl ago in place with its value, in Redis and in the fallback maps.
C19_SweepKeepsFreshEntries ==
    [][CleanupExpiredCache =>
          \A ck \in CacheKeys :
              /\ FreshEntry(redis_db[ck]) => redis_db'[ck] = redis_db[ck]
              /\ \A s \in Services :
                     FreshEntry(cache[s][ck]) => cache'[s][ck] = cache[s][ck]]_vars

\* the keys a step removed from the store of instance s
RemovedKeys(s) ==
    {ck \in CacheKeys :
        \/ redis_db[ck].present /\ ~redis_db'[ck].present
        \/ cache[s][ck].present /\ ~cache'[s][ck].present}

\* C20: clear_pattern(p) leaves every key that does not match the prefixed
\* pattern in place with its value, on Redis and on the fallback, and
\* returns the number of keys it removed.
C20_ClearPatternFrame ==
    [][ClearPattern =>
          LET s == cache_call'.svc
              p == MakeKey(cache_call'.key)
          IN  /\ \A ck \in CacheKeys :
                     ~GlobMatch(p, ck) =>
                         /\ redis_db'[ck] = redis_db[ck]
                         /\ cache'[s][ck] = cache[s][ck]
              /\ cache_call'.ret = PyInt(Cardinality(RemovedKeys(s)))]_vars

\* every record of the assembled context is a record the upstream returned
FromUpstream(data) ==
    /\ Range(data.selections) \subseteq Range(upstream.selections)
    /\ Range(data.all_courses) \subseteq Range(upstream.all_courses)
    /\ Range(data.projects) \subseteq Range(upstream.projects)
    /\ data.goal \in {NoGoal, upstream.goal}
    /\ Range(data.reports) \subseteq Range(upstream.reports)

UrgencyTable(days_left, task_type) ==
    CASE task_type = "COURSE" ->
             (IF days_left <= 1 THEN 95 ELSE IF days_left <= 3 THEN 85
              ELSE IF days_left <= 7 THEN 70 ELSE IF days_left <= 14 THEN 50
              ELSE 30)
      [] task_type = "PROJECT" ->
             (IF days_left <= 3 THEN 90 ELSE IF days_left <= 7 THEN 75
              ELSE IF days_left <= 14 THEN 60 ELSE 40)
      [] OTHER -> 25

\* C22: _calculate_urgency_score returns the value of the table for a
\* course and for a project, 25 for any other task type, and for each type
\* a later deadline never gets a higher score.
C22_UrgencyTable ==
    urgency_call.done =>
        LET days_left == urgency_call.val[1]
            task_type == urgency_call.val[2]
            result    == urgency_call.val[3]
        IN  /\ result = UrgencyTable(days_left, task_type)
            /\ \A later \in DaysLeftVals :
                   later >= days_left =>
                       CalculateUrgencyScore(later, task_type) <= result

\* a course due in exactly one day scores 95
C22_Witness ==
    /\ urgency_call.done
    /\ urgency_call.val = <<1, "COURSE", 95>>

\* a step of instance s that stored the user's entry in Redis, and the entry
StoredInRedis(s) == redis'[s] = "Redis" /\ redis_up
WrittenEntry == redis_db'[MakeKey(UserKey(extract_user_id))]
UsesTtl(ttl) ==
    /\ WrittenEntry.present /\ WrittenEntry.expires
    /\ WrittenEntry.expire_at = now + ttl
    /\ LET entry == Loads(WrittenEntry.data) IN
       FromIsoFormat(GetField(entry, "next_refresh"))
           = FromIsoFormat(GetField(entry, "last_updated")) + ttl

\* C23: every write of the user's recommendations to Redis, by a request and
\* by the daily and hourly cycles, gives the entry the time to live
\* settings.cache_ttl, and the stored next_refresh is the stored last_updated
\* plus settings.cache_ttl.
C23_WritesUseConfiguredTtl ==
    [][/\ ((\E r \in Requests : ReqCacheSet(r)) /\ StoredInRedis("api"))
              => UsesTtl(cache_ttl)
       /\ ((PrecomputeSet \/ RefreshSet) /\ StoredInRedis("pre"))
              => UsesTtl(cache_ttl)]_vars

\* the entry of the user the hourly cycle is at, in the store the scheduler's
\* CacheService is connected to once the step has connected it
RefreshKey == MakeKey(UserKey(RecentlyActiveUsers[refreshing.i]))
RefreshEntry == Backend(redis'["pre"], "pre")[RefreshKey]
RefreshedEntry ==
    (IF redis'["pre"] = "InMemoryCache" THEN cache'["pre"]
     ELSE redis_db')[RefreshKey]
MissingOrStale(slot) ==
    \/ ~slot.present
    \/ now - FromIsoFormat(GetField(Loads(slot.data), "last_updated"))
           > StaleAfter

\* C24: the hourly cycle regenerates a recently-active user exactly when the
\* user's entry is missing or its last_updated is more than 3600 s old, a
\* regenerated user's entry is rewritten with the new set, and an entry
\* fresher than that is left as it is.
C24_RefreshIffStale ==
    [][/\ RefreshGet =>
              /\ (refreshing'.pc = "generate") <=> MissingOrStale(RefreshEntry)
              /\ UNCHANGED <<redis_db, cache>>
       /\ RefreshGenerate => refreshing'.pc = "set"
       /\ RefreshSet =>
              /\ RefreshedEntry.present
              /\ RefreshedEntry.data = Dumps(refreshing.cache_data)]_vars

\* the entry of the user the daily cycle is at, after a step of the cycle
PrecomputeKey == MakeKey(UserKey(ActiveUserIds[precompute.i]))
PrecomputedEntry ==
    (IF redis'["pre"] = "InMemoryCache" THEN cache'["pre"]
     ELSE redis_db')[PrecomputeKey]

\* C25: the daily cycle takes the active users one after the other from the
\* first to the last; for each of them generate_recommendations is called
\* and its result is then stored under that user's key before the cycle
\* goes on to the next user.
C25_EveryUserPrecomputed ==
    [][/\ PrecomputeStart =>
              precompute'.pc = "generate" /\ precompute'.i = 1
       /\ PrecomputeGenerate =>
              /\ precompute'.pc = "set" /\ precompute'.i = precompute.i
              /\ precompute'.cache_data =
                     CacheData(ItemDicts(Engine(tasks_done[
                                   ActiveUserIds[precompute.i]]).recs, now),
                               ActiveUserIds[precompute.i], now)
       /\ PrecomputeSet =>
              /\ PrecomputedEntry.present
              /\ PrecomputedEntry.data = Dumps(precompute.cache_data)
              /\ precompute' = IF precompute.i < Len(ActiveUserIds)
                               THEN [pc |-> "generate", i |-> precompute.i + 1,
                                     cache_data |-> PyNone]
                               ELSE NoCycle]_vars

\* all_recommendations of generate_recommendations, before the selector
AllRecommendations(w, data) ==
    Gather(<<RecommendCourses(w, data), RecommendProjects(w, data),
             RecommendSystemActions(w, data)>>)
\* the upstream read a candidate of the given type is made from
SourceOf(type) ==
    CASE type = COURSE_URGENT  -> "selections"
      [] type = COURSE_POPULAR -> "all_courses"
      [] type = TASK_CLAIM     -> "projects"
      [] type = GOAL_TALK      -> "goal"
      [] OTHER                 -> "reports"

\* C26: each of the five fields of the assembled context is what its read
\* returned when the read succeeded and [] (None for the goal) when it
\* failed, whatever the other reads did; and every candidate the generators
\* make when no read fails, from a source whose read succeeded, is still
\* made from the assembled context.
C26_FailedReadGivesDefault ==
    (gpc # "start" /\ ~use_mock_data) =>
        /\ user_data.selections =
               IF "selections" \in failed THEN <<>>
               ELSE ParseRecords(upstream.selections)
        /\ user_data.all_courses =
               IF "all_courses" \in failed THEN <<>> ELSE upstream.all_courses
        /\ user_data.projects =
               IF "projects" \in failed THEN <<>>
               ELSE ParseRecords(upstream.projects)
        /\ user_data.goal =
               IF "goal" \in failed THEN NoGoal ELSE upstream.goal
        /\ user_data.reports =
               IF "reports" \in failed THEN <<>> ELSE upstream.reports
        /\ LET all == AllRecommendations(algorithm_weights,
                                 FetchUserData(FALSE, upstream, {}))
               got == AllRecommendations(algorithm_weights, user_data)
           IN  ~all.raised =>
                   /\ ~got.raised
                   /\ \A i \in 1..Len(all.recs) :
                          SourceOf(all.recs[i].type) \notin failed =>
                              all.recs[i] \in Range(got.recs)

\* the catalog read failed and a project candidate is returned all the same
C26_Witness ==
    /\ gpc = "done" /\ ~use_mock_data
    /\ failed = {"all_courses"}
    /\ upstream.all_courses # <<>>
    /\ \E i \in 1..Len(gen_result.val.recs) :
           gen_result.val.recs[i].type = TASK_CLAIM

\* the upstream replies without their malformed records
WellFormed(up) ==
    [selections  |-> SelectOk(up.selections),
     all_courses |-> SelectOk(up.all_courses),
     projects    |-> SelectOk(up.projects),
     goal        |-> IF up.goal.ok THEN up.goal ELSE NoGoal,
     reports     |-> SelectOk(up.reports)]

\* C27: a malformed record of any of the five sources only drops that
\* record: the returned set is the one generated from the same replies
\* without their malformed records.
C27_MalformedRecordDropped ==
    (gpc = "done" /\ ~use_mock_data) =>
        gen_result.val =
            GenerateRecommendations(
                algorithm_weights,
                FetchUserData(FALSE, WellFormed(upstream), failed))

AliveInstances(l) == {t \in TaskIds : t[1] = l /\ Alive(t)}

\* C28: whatever start_background_tasks and stop_background_tasks calls have
\* been made, at most one task of each of the three loops is alive.
C28_OneInstancePerLoop ==
    \A l \in Loops : Cardinality(AliveInstances(l)) <= 1

\* the cached sets of the users: an entry whose recommendations are not empty
NonEmptySet(slot) ==
    /\ slot.present
    /\ HasField(Loads(slot.data), "recommendations")
    /\ Truthy(GetField(Loads(slot.data), "recommendations"))
UserCacheKeys == {MakeKey(UserKey(u)) : u \in Users}
KeepsNonEmpty(old, new) ==
    (NonEmptySet(old) /\ new.present /\ new # old) => NonEmptySet(new)

\* C29: a write of the request path or of a scheduler cycle never replaces
\* a user's non-empty cached set by an empty one, in Redis or in a fallback
\* map.
C29_EmptyNeverReplacesSet ==
    [][\A ck \in UserCacheKeys :
          /\ KeepsNonEmpty(redis_db[ck], redis_db'[ck])
          /\ \A s \in Services :
                 KeepsNonEmpty(cache[s][ck], cache'[s][ck])]_vars

\* completion counts of a catalog course; the importance of a popular course
\* stops growing at 15 completions
MaxFinished == 40

\* C30: under the default weights there is a catalog course the user has not
\* selected, with at least 5 completions, for which _recommend_courses
\* emits a course-popular candidate (its total score is at least 60).
C30_PopularGateReachable ==
    algorithm_weights = DefaultWeights =>
        \E n \in 5..MaxFinished :
            PopularCourse(algorithm_weights, Course(103, n), {}).recs # <<>>

=============================================================================
